---- MODULE Spec2Model ----
(***************************************************************************)
(* Model of the vote-ingestion, dirty-set and broadcast pipeline of the    *)
(* polling platform (polls/, core/tasks.py).                               *)
(*                                                                         *)
(* Every ORM call runs in autocommit mode (settings.py sets no             *)
(* ATOMIC_REQUESTS and the vote path opens no transaction), so each        *)
(* database statement and each Redis command is one atomic step and        *)
(* concurrent requests interleave between them.                            *)
(***************************************************************************)
EXTENDS Integers, Sequences, FiniteSets, TLC

\* ------------------------------------------------------------------ bounds
MaxReqs == 2
MaxTime == 2
NumOptions == 2

\* ---------------------------------------------------------------- universe
Users == {"u1", "u2"}
Anonymous == "anonymous"
Voters == Users \cup {Anonymous}
PollIds == {"p1", "p2"}
NoOrg == "none"
Orgs == {"g1"}
NoCountry == "unknown"
Unrestricted == ""
Reqs == 1..MaxReqs
Conns == {"c1", "c2", "c3"}
NoPoll == "nopoll"

\* request.META of a vote request: the X-Forwarded-For header (a sequence of
\* addresses, empty when the header is absent) and the peer address.
DirectNG == [xff |-> <<>>, remote |-> "1.1.1.1"]
ProxiedUS == [xff |-> <<"8.8.8.8", "1.1.1.1">>, remote |-> "127.0.0.1"]
Loopback == [xff |-> <<>>, remote |-> "127.0.0.1"]

\* The clients that submit votes: who is logged in, from which connection.
Clients ==
    { <<"u1", DirectNG>>, <<"u2", DirectNG>>, <<Anonymous, DirectNG>>,
      <<Anonymous, ProxiedUS>>, <<"u2", Loopback>> }

\* polls/utils.py get_client_ip
get_client_ip(meta) ==
    IF meta.xff # <<>> THEN meta.xff[1] ELSE meta.remote

\* The GeoIP2 country database: address -> ISO code; an address outside its
\* domain raises AddressNotFoundError.
GeoDb == [ip \in {"1.1.1.1", "8.8.8.8"} |-> IF ip = "1.1.1.1" THEN "NG" ELSE "US"]

IsPrivateIp(ip) == ip \in {"127.0.0.1", "localhost", "::1"}

\* polls/utils.py get_country_from_ip; dbReadable = FALSE is the
\* FileNotFoundError / generic Exception branch.
get_country_from_ip(ip, dbReadable) ==
    IF IsPrivateIp(ip) THEN NoCountry
    ELSE IF ~dbReadable THEN NoCountry
    ELSE IF ip \notin DOMAIN GeoDb THEN NoCountry
    ELSE GeoDb[ip]

\* ------------------------------------------------------- poll identifiers
\* Poll.poll_id is a UUID.  Its text is written with hyphens (str(uuid)) or
\* without them (uuid.hex); the model keeps of a text which poll it names
\* and whether it holds hyphens, the one thing the code's patterns tell apart.
PollIdTexts == [poll : PollIds, hyphens : BOOLEAN]

\* str(poll_id), as handle_new_vote line 30 and the dirty set write it.
UuidStr(p) == [poll |-> p, hyphens |-> TRUE]

\* polls/routing.py line 6, the pattern core/asgi.py mounts:
\* ws/poll/(?P<poll_id>\w+)/$ -- \w matches no hyphen.
RouteMatches(text) == ~text.hyphens

\* f"poll_{poll_id}": the same prefix on the consumer's and the senders' side.
GroupName(text) == text

\* -------------------------------------------------------------- data model
\* Storage key of the option with ordinal `index` of poll `p`: options of all
\* polls share one table, so the key differs from the ordinal.
PollOrdinal(p) == IF p = "p1" THEN 0 ELSE 1
OptionPk(p, index) == PollOrdinal(p) * NumOptions + index
OptionPks == 1..(2 * NumOptions)

VARIABLES
    now,                    \* timezone.now()
    polls,                  \* Poll table: poll_id -> row
    options,                \* PollOption table: pk -> row
    votes,                  \* Vote table: sequence of rows, position = pk
    members,                \* OrganizationMember table: set of <<org, user>>
    req,                    \* vote requests in flight and their responses
    dirty_polls,            \* Redis set "dirty_polls"
    dirty_polls_processing, \* Redis set "dirty_polls_processing"
    tick,                   \* broadcast_poll_updates task instances
    consumer,               \* PollConsumer instances, one per websocket
    groups,                 \* channel layer: group name -> channels
    inbox,                  \* channel layer: channel -> queued group messages
    recv,                   \* what each websocket client has been sent
    hist,                   \* history of the run, read only by the properties
    accounts,               \* User table: pk -> row
    verifications,          \* UserVerification table: set of rows
    vcall,                  \* calls of _verify_email and their responses
    patch,                  \* PATCH /polls/<poll_id>/ requests in flight
    transactions,           \* Transaction table: reference -> row
    premium,                \* the users whose is_premium is set
    pcall                   \* verify and webhook calls of the payments app

vars == <<now, polls, options, votes, members, req, dirty_polls,
          dirty_polls_processing, tick, consumer, groups, inbox, recv, hist,
          accounts, verifications, vcall, patch, transactions, premium, pcall>>

\* The poll editing requests and the payments application.
payVars == <<transactions, premium, pcall>>
extVars == <<patch, payVars>>

\* Everything outside the voting pipeline: authentication, poll editing,
\* payments.
appVars == <<accounts, verifications, vcall, extVars>>

dbVars == <<polls, options, votes, members>>
redisVars == <<dirty_polls, dirty_polls_processing>>
wsVars == <<consumer, groups, inbox, recv>>


\* ------------------------------------------------------------------- Init
\* Poll rows as PollCreateSerializer.create leaves them: active, not manually
\* closed, end_date after start_date.
PollCreator == "u1"
PollRow(public, org, country, endDate) ==
    [creator |-> PollCreator,
     is_active |-> TRUE, manually_closed |-> FALSE, is_public |-> public,
     organization |-> org, allowed_country |-> country,
     start_date |-> 0, end_date |-> endDate]

NoPollRow == PollRow(TRUE, NoOrg, Unrestricted, 0)

\* PollCreateSerializer.create numbers the options 1, 2, 3, ... and every
\* vote_count starts at the column default 0.
InitOptions ==
    [pk \in OptionPks |->
        [poll |-> IF pk <= NumOptions THEN "p1" ELSE "p2",
         index |-> ((pk - 1) % NumOptions) + 1,
         vote_count |-> 0]]

IdleReq ==
    [pc |-> "idle", user |-> Anonymous, ip |-> "", poll_id |-> NoPoll,
     option_id |-> 0, poll |-> NoPollRow, option |-> 0, country |-> NoCountry,
     results |-> <<>>, status |-> 0, reason |-> "", fault |-> FALSE]

IdleTick ==
    [pc |-> "idle", dirty_poll_ids |-> {}, todo |-> {}, poll_id |-> NoPoll,
     options_data |-> <<>>, clean |-> FALSE, start |-> {}, again |-> {},
     sent |-> <<>>, failed |-> {}]
TickIds == {1, 2}

NewConsumer == [state |-> "new", poll_id |-> NoPoll, room_group_name |-> NoPoll,
                since |-> 0]
NoMessage == [type |-> "none", results |-> <<>>]

\* History read only by the properties:
\*   voted   polls with an accepted vote that no snapshot has drained since
\*   pending poll -> number of ticks begun since it was marked dirty, for the
\*           marked polls no tick has drained yet (capped at 2); a poll that
\*           is in the working set when a snapshot is read was marked again
\*           after the RENAME and stays pending
\*   window  the last two snapshot calls made with no mark_dirty since the
\*           first of them began: what the dirty set held, what was returned
\*   published  poll -> the results of the last poll_update the vote path
\*           sent to the poll's group, <<>> before the first
\* and, in each tick, `again`: the polls of its snapshot that an earlier
\* snapshot had returned already for the same mark; `sent`: the polls it has
\* published for, in order; `failed`: the polls whose fetch or publish raised.
InitHist ==
    [voted |-> {}, pending |-> <<>>, window |-> <<>>,
     published |-> [p \in PollIds |-> <<>>]]

\* ---------------------------------------------------------- authentication
NoUser == "nobody"
VCalls == {1, 2}

\* A token of EmailVerificationTokenGenerator: its hash covers the user's pk,
\* the timestamp and the user's email_verified flag at the time it was made.
make_token(user, verified, t) == [user |-> user, stamp |-> t, verified |-> verified]
GarbageToken == make_token(NoUser, FALSE, 0)

\* A UserVerification row.
VerificationRow(user, code, expires) ==
    [user |-> user, verification_type |-> "email", verification_code |-> code,
     is_verified |-> FALSE, expires_at |-> expires]
NoVerification == VerificationRow(NoUser, GarbageToken, 0)

\* The clock counts in units of the life of a verification link,
\* timedelta(hours=2) in build_email_verification_link.
VerificationLifetime == 1

\* Django's default PASSWORD_RESET_TIMEOUT, three days, in the same unit.
ResetTimeout == 36

\* The row build_email_verification_link creates at time t for an unverified
\* user (it first deletes the user's earlier unverified email rows, so a user
\* has at most one).
LinkRow(user, t) ==
    VerificationRow(user, make_token(user, FALSE, t), t + VerificationLifetime)

IdleVCall ==
    [pc |-> "idle", uid |-> "", token |-> GarbageToken, user |-> NoUser,
     verification |-> NoVerification, status |-> 0, message |-> ""]

\* No account is verified, no link is out, no call is made.
InitAuthIdle ==
    /\ accounts = [u \in Users |-> [email_verified |-> FALSE]]
    /\ verifications = {}
    /\ vcall = [v \in VCalls |-> IdleVCall]

\* PATCH requests of the poll API.
Patches == {1}
IdlePatch == [pc |-> "idle", poll_id |-> NoPoll, instance |-> NoPollRow]

\* Payment calls; no Transaction exists before the first initialize.
PCalls == {1, 2}
NoRef == "noref"
IdlePCall ==
    [pc |-> "idle", kind |-> "", tx_ref |-> NoRef, status |-> "",
     user |-> NoUser, code |-> 0, message |-> ""]

\* No poll is being edited, no payment was begun.
InitExtIdle ==
    /\ patch = [u \in Patches |-> IdlePatch]
    /\ transactions = <<>>
    /\ premium = {}
    /\ pcall = [c \in PCalls |-> IdlePCall]

InitPolls ==
    /\ now = 1
    /\ \E public \in BOOLEAN, org \in Orgs \cup {NoOrg},
          country \in {Unrestricted, "NG"} :
          polls = [p \in PollIds |->
                     IF p = "p1" THEN PollRow(public, org, country, 1)
                     ELSE PollRow(TRUE, NoOrg, Unrestricted, MaxTime + 1)]
    /\ options = InitOptions
    /\ votes = <<>>
    /\ members = {<<"g1", "u1">>}
    /\ req = [r \in Reqs |-> IdleReq]
    /\ dirty_polls = {}
    /\ dirty_polls_processing = {}
    /\ tick = [t \in TickIds |-> IdleTick]
    /\ consumer = [c \in Conns |-> NewConsumer]
    /\ groups = [g \in PollIdTexts |-> {}]
    /\ inbox = [c \in Conns |-> <<>>]
    /\ recv = [c \in Conns |-> NoMessage]
    /\ hist = InitHist

Init == InitPolls /\ InitAuthIdle /\ InitExtIdle

\* ------------------------------------------------------------ vote request
Respond(r, code, why) ==
    req' = [req EXCEPT ![r].pc = "done", ![r].status = code, ![r].reason = why]

\* A mutant of is_expired: the comparison is turned around.
is_expired_reversed(poll, t) == t < poll.end_date

\* Poll.is_expired
is_expired(poll, t) == t > poll.end_date

\* PollViewSet.vote up to the serializer: get_object() answers 404 for an
\* unknown poll id.  Requests are numbered in arrival order.
SubmitVote(r, user, meta, poll_id, option_id) ==
    /\ req[r].pc = "idle"
    /\ IF r = 1 THEN TRUE ELSE req[r - 1].pc # "idle"
    /\ LET q == [IdleReq EXCEPT !.user = user, !.ip = get_client_ip(meta),
                                !.poll_id = poll_id, !.option_id = option_id]
       IN  req' = [req EXCEPT ![r] =
                IF poll_id \in DOMAIN polls
                THEN [q EXCEPT !.pc = "validate"]
                ELSE [q EXCEPT !.pc = "done", !.status = 404,
                               !.reason = "Not found."]]
    /\ UNCHANGED <<appVars, now, dbVars, redisVars, tick, wsVars, hist>>

\* VoteSerializer.validate, lines 46-71: the poll and option lookups and the
\* checks that read only the poll row.
ValidatePoll(r) ==
    /\ req[r].pc = "validate"
    /\ LET q == req[r]
           poll == polls[q.poll_id]
           found == {pk \in DOMAIN options : /\ options[pk].poll = q.poll_id
                                        /\ options[pk].index = q.option_id}
           seen == [q EXCEPT !.poll = poll]
           reject(why) == [seen EXCEPT !.pc = "done", !.status = 400, !.reason = why]
       IN  req' = [req EXCEPT ![r] =
               IF q.poll_id \notin DOMAIN polls
               THEN [q EXCEPT !.pc = "done", !.status = 400,
                              !.reason = "Poll not found."]
               ELSE IF found = {}
               THEN reject("Invalid option for this poll.")
               ELSE IF ~poll.is_active
               THEN reject("This poll is closed.")
               ELSE IF is_expired(poll, now)
               THEN reject("This poll has expired.")
               ELSE IF ~poll.is_public /\ q.user = Anonymous
               THEN reject("You must be logged in to vote in this poll.")
               ELSE [seen EXCEPT
                        !.pc = IF ~poll.is_public /\ poll.organization # NoOrg
                               THEN "member" ELSE "dup",
                        !.option = CHOOSE pk \in found : TRUE]]
    /\ UNCHANGED <<appVars, now, dbVars, redisVars, tick, wsVars, hist>>

\* The Vote row VoteSerializer.create inserts; `by` names the request that
\* inserted it (read only by the properties).
VoteRow(r) ==
    [poll |-> req[r].poll_id, option |-> req[r].option,
     user |-> req[r].user, ip_address |-> req[r].ip, by |-> r]

\* A mutant of ValidateMember: the Vote row is written before the membership
\* is checked.
ValidateMemberAfterInsert(r) ==
    /\ req[r].pc = "member"
    /\ LET q == req[r]
       IN  IF <<q.poll.organization, q.user>> \in members
           THEN /\ req' = [req EXCEPT ![r].pc = "dup"]
                /\ UNCHANGED votes
           ELSE /\ votes' = Append(votes, VoteRow(r))
                /\ Respond(r, 400, "You must be a member of the organization to vote.")
    /\ UNCHANGED <<appVars, now, polls, options, members, redisVars, tick, wsVars, hist>>

\* VoteSerializer.validate, lines 73-83: the OrganizationMember query.
ValidateMember(r) ==
    /\ req[r].pc = "member"
    /\ LET q == req[r]
       IN  IF <<q.poll.organization, q.user>> \in members
           THEN req' = [req EXCEPT ![r].pc = "dup"]
           ELSE Respond(r, 400, "You must be a member of the organization to vote.")
    /\ UNCHANGED <<appVars, now, dbVars, redisVars, tick, wsVars, hist>>

\* A mutant of CountryAllowed: an unresolved address is let through.
CountryAllowedFailOpen(user_country, allowed_country) ==
    user_country = NoCountry \/ user_country = allowed_country

\* VoteSerializer.validate, line 87 (negated).
CountryAllowed(user_country, allowed_country) ==
    user_country = allowed_country

\* A mutant of HasVoted: the address is checked for every voter.
HasVotedByUserOrAddress(ledger, poll_id, user, ip) ==
    \E i \in DOMAIN ledger :
        /\ ledger[i].poll = poll_id
        /\ \/ ledger[i].ip_address = ip
           \/ user # Anonymous /\ ledger[i].user = user

\* VoteSerializer.validate, lines 93-102: Vote.objects.filter(...).exists().
HasVoted(ledger, poll_id, user, ip) ==
    \E i \in DOMAIN ledger :
        /\ ledger[i].poll = poll_id
        /\ IF user # Anonymous THEN ledger[i].user = user
           ELSE ledger[i].ip_address = ip

\* VoteSerializer.validate, lines 85-107: the country check and the
\* duplicate query.
ValidateDup(r) ==
    /\ req[r].pc = "dup"
    /\ \E dbReadable \in BOOLEAN :
         LET q == req[r]
             user_country == IF q.poll.allowed_country # Unrestricted
                             THEN get_country_from_ip(q.ip, dbReadable)
                             ELSE NoCountry
             looked == [q EXCEPT !.country = user_country]
         IN  req' = [req EXCEPT ![r] =
               IF /\ q.poll.allowed_country # Unrestricted
                  /\ ~CountryAllowed(user_country, q.poll.allowed_country)
               THEN [looked EXCEPT !.pc = "done", !.status = 400,
                        !.reason = "This poll is restricted to voters in its country."]
               ELSE IF HasVoted(votes, q.poll_id, q.user, q.ip)
               THEN [looked EXCEPT !.pc = "done", !.status = 400,
                        !.reason = IF q.user # Anonymous
                                   THEN "You have already voted in this poll."
                                   ELSE "A vote has already been cast from this IP address."]
               ELSE [looked EXCEPT !.pc = "create"]]
    /\ UNCHANGED <<appVars, now, dbVars, redisVars, tick, wsVars, hist>>

\* PollViewSet.vote lines 168-175 and VoteSerializer.create: the option must
\* belong to the poll of the URL, then the Vote row is inserted.  The Vote
\* model declares two indexes and no uniqueness constraint, so the insert
\* always succeeds.
CreateVote(r) ==
    /\ req[r].pc = "create"
    /\ IF options[req[r].option].poll # req[r].poll_id
       THEN /\ Respond(r, 400, "Invalid option for this poll.")
            /\ UNCHANGED votes
       ELSE /\ votes' = Append(votes, VoteRow(r))
            /\ req' = [req EXCEPT ![r].pc = "inc"]
    /\ UNCHANGED <<appVars, now, polls, options, members, redisVars, tick, wsVars, hist>>

\* A mutant of IncrementCount: a read-modify-write whose write-back is lost
\* when another increment of the row has landed first.
IncrementLossy(table, pk) ==
    [table EXCEPT ![pk].vote_count =
        IF table[pk].vote_count > 0 THEN @ ELSE @ + 1]

\* handle_new_vote lines 23-25: UPDATE ... SET vote_count = vote_count + 1.
IncrementCount(table, pk) ==
    [table EXCEPT ![pk].vote_count = @ + 1]

\* handle_new_vote, step 1 (post_save of the created Vote).
SignalIncrement(r) ==
    /\ req[r].pc = "inc"
    /\ options' = IncrementCount(options, req[r].option)
    /\ req' = [req EXCEPT ![r].pc = "fetch"]
    /\ UNCHANGED <<appVars, now, polls, votes, members, redisVars, tick, wsVars, hist>>

\* handle_new_vote lines 35-42: the options of the poll, 'index' sent as 'id'.
FormatResults(table, poll_id) ==
    [i \in 1..NumOptions |->
        [id |-> table[OptionPk(poll_id, i)].index,
         vote_count |-> table[OptionPk(poll_id, i)].vote_count]]

SignalFetch(r) ==
    /\ req[r].pc = "fetch"
    /\ req' = [req EXCEPT ![r].pc = "send",
                          ![r].results = FormatResults(options, req[r].poll_id)]
    /\ UNCHANGED <<appVars, now, dbVars, redisVars, tick, wsVars, hist>>

\* channel_layer.group_send: one copy of the message is queued for every
\* channel that is in the group at that moment.
group_send(boxes, grp, group, message) ==
    [c \in Conns |-> IF c \in grp[group] THEN Append(boxes[c], message)
                     ELSE boxes[c]]

\* handle_new_vote lines 45-47, then PollViewSet.vote answers 201.
SignalSend(r) ==
    /\ req[r].pc = "send"
    /\ inbox' = group_send(inbox, groups, GroupName(UuidStr(req[r].poll_id)),
                           [type |-> "poll_update", results |-> req[r].results])
    /\ req' = [req EXCEPT ![r].pc = "done", ![r].status = 201,
                          ![r].reason = "Vote cast successfully.",
                          ![r].results = <<>>]
    /\ hist' = [hist EXCEPT !.voted = @ \cup {req[r].poll_id},
                            !.published[req[r].poll_id] = req[r].results]
    /\ UNCHANGED <<appVars, now, dbVars, redisVars, tick, consumer, groups, recv>>

\* handle_new_vote lines 49-53: any exception of the increment, the fetch or
\* the send is logged and swallowed; the vote stays saved and the request
\* still answers 201.
SignalFails(r) ==
    /\ req[r].pc \in {"inc", "fetch", "send"}
    /\ req' = [req EXCEPT ![r].pc = "done", ![r].status = 201,
                          ![r].reason = "Vote cast successfully.",
                          ![r].results = <<>>, ![r].fault = TRUE]
    /\ hist' = [hist EXCEPT !.voted = @ \cup {req[r].poll_id}]
    /\ UNCHANGED <<appVars, now, dbVars, redisVars, tick, wsVars>>

\* ------------------------------------------------------------- environment
\* OrganizationViewSet.join_organization: get_or_create of the membership.
JoinOrganization(org, user) ==
    /\ <<org, user>> \notin members
    /\ members' = members \cup {<<org, user>>}
    /\ UNCHANGED <<appVars, now, polls, options, votes, req, redisVars, tick, wsVars, hist>>

\* OrganizationViewSet.perform_create makes the creator of an organization
\* its ADMIN member; join_organization adds plain members.
OrgAdmins == {<<"g1", "u1">>}

\* polls/permissions.py IsPollCreatorOrOrgAdmin.has_object_permission for an
\* unsafe method.
IsPollCreatorOrOrgAdmin(poll, user) ==
    IF poll.organization = NoOrg THEN poll.creator = user
    ELSE <<poll.organization, user>> \in OrgAdmins

\* PollViewSet.close: an active poll is closed by its creator or by an admin
\* of its organization.
ClosePoll(p, user) ==
    /\ p \in DOMAIN polls
    /\ polls[p].is_active
    /\ IsPollCreatorOrOrgAdmin(polls[p], user)
    /\ polls' = [polls EXCEPT ![p].is_active = FALSE,
                              ![p].manually_closed = TRUE,
                              ![p].end_date = now]
    /\ UNCHANGED <<appVars, now, options, votes, members, req, redisVars, tick, wsVars, hist>>

\* PollCreateSerializer.create lines 175-179: end_date is start_date plus the
\* duration, whose value the serializer requires to be at least 1.
EndDate(start, duration) == start + duration

\* PollViewSet.create with PollCreateSerializer.create: in one transaction
\* the Poll row, active and starting now, and its numbered options are
\* inserted.  Time passes before the response: every later request reads a
\* later clock.
CreatePoll(p, user, public, org, country, duration) ==
    /\ p \notin DOMAIN polls
    /\ now < MaxTime
    /\ now' = now + 1
    /\ polls' = [q \in DOMAIN polls \cup {p} |->
                    IF q = p
                    THEN [PollRow(public, org, country, EndDate(now, duration))
                            EXCEPT !.creator = user, !.start_date = now]
                    ELSE polls[q]]
    /\ options' = [pk \in DOMAIN options \cup
                               {OptionPk(p, i) : i \in 1..NumOptions} |->
                      IF pk \in DOMAIN options THEN options[pk]
                      ELSE [poll |-> p,
                            index |-> pk - PollOrdinal(p) * NumOptions,
                            vote_count |-> 0]]
    /\ UNCHANGED <<appVars, votes, members, req, redisVars, tick, wsVars, hist>>

\* PollViewSet.partial_update, step 1 (UpdateModelMixin.update): get_object
\* loads the row and checks the permission, the serializer sets the sent
\* field on the loaded instance.
UpdateLoad(u, p, user, public) ==
    /\ patch[u].pc = "idle"
    /\ p \in DOMAIN polls
    /\ IsPollCreatorOrOrgAdmin(polls[p], user)
    /\ patch' = [patch EXCEPT ![u] =
                    [pc |-> "save", poll_id |-> p,
                     instance |-> [polls[p] EXCEPT !.is_public = public]]]
    /\ UNCHANGED <<accounts, verifications, vcall, payVars, now, dbVars, req,
                   redisVars, tick, wsVars, hist>>

\* PollViewSet.partial_update, step 2 (ModelSerializer.update): Model.save()
\* writes every column of the loaded instance back to the row.
UpdateSave(u) ==
    /\ patch[u].pc = "save"
    /\ patch[u].poll_id \in DOMAIN polls
    /\ polls' = [polls EXCEPT ![patch[u].poll_id] = patch[u].instance]
    /\ patch' = [patch EXCEPT ![u] = IdlePatch]
    /\ UNCHANGED <<accounts, verifications, vcall, payVars, now, options, votes,
                   members, req, redisVars, tick, wsVars, hist>>

\* The rows of a table that reference poll p are deleted with it
\* (on_delete=CASCADE of PollOption.poll and of Vote.poll).
CascadeRows(rows, p) == SelectSeq(rows, LAMBDA row : row.poll # p)

\* PollViewSet is a ModelViewSet with every HTTP method left enabled:
\* DELETE /polls/<poll_id>/ by the creator or an organization admin deletes
\* the Poll row and, by cascade, its PollOption and Vote rows.
DestroyPoll(p, user) ==
    /\ p \in DOMAIN polls
    /\ IsPollCreatorOrOrgAdmin(polls[p], user)
    /\ polls' = [q \in DOMAIN polls \ {p} |-> polls[q]]
    /\ options' = [pk \in {k \in DOMAIN options : options[k].poll # p} |->
                      options[pk]]
    /\ votes' = CascadeRows(votes, p)
    /\ UNCHANGED <<appVars, now, members, req, redisVars, tick, wsVars, hist>>

\* The clock advances.
AdvanceTime ==
    /\ now < MaxTime
    /\ now' = now + 1
    /\ UNCHANGED <<appVars, dbVars, req, redisVars, tick, wsVars, hist>>

\* ------------------------------------------------------ email verification
\* urlsafe_base64_decode(uid).decode(): the pk the uid encodes, NoUser when
\* the text is no base64 of a pk (ValueError and the like).
DecodeUid(uid) ==
    CASE uid = "dTE" -> "u1"
      [] uid = "dTI" -> "u2"
      [] uid = "dTk" -> "u9"
      [] OTHER -> NoUser

\* PasswordResetTokenGenerator.check_token with the hash of users/tokens.py:
\* the token was made for this pk and this email_verified flag, and is not
\* older than the reset timeout.
check_token(user, verified, token, t) ==
    /\ token.user = user
    /\ token.verified = verified
    /\ t - token.stamp <= ResetTimeout

\* UserVerification.is_expired
verification_is_expired(row, t) == t > row.expires_at

\* A mutant of DeleteVerification: the row is left in the table.
KeepVerification(table, row) == table

\* verification.delete(): deleting a row that is already gone deletes nothing.
DeleteVerification(table, row) == table \ {row}

VRespond(v, code, text) ==
    vcall' = [vcall EXCEPT ![v].pc = "done", ![v].status = code,
                           ![v].message = text]

\* _verify_email lines 19-29: the uid is decoded and the user loaded.
VerifyLoadUser(v, uid, token) ==
    /\ vcall[v].pc = "idle"
    /\ IF v = 1 THEN TRUE ELSE vcall[v - 1].pc # "idle"
    /\ LET pk == DecodeUid(uid)
           call == [IdleVCall EXCEPT !.uid = uid, !.token = token]
       IN  vcall' = [vcall EXCEPT ![v] =
               IF pk \notin DOMAIN accounts
               THEN [call EXCEPT !.pc = "done", !.status = 400,
                                 !.message = "Invalid verification link."]
               ELSE [call EXCEPT !.user = pk,
                                 !.pc = IF accounts[pk].email_verified
                                        THEN "purge" ELSE "record"]]
    /\ UNCHANGED <<extVars, now, dbVars, req, redisVars, tick, wsVars, hist,
                   accounts, verifications>>

\* _verify_email lines 29-33: the user is verified already; the user's email
\* rows are deleted.
VerifyPurge(v) ==
    /\ vcall[v].pc = "purge"
    /\ verifications' = {row \in verifications :
                            ~(row.user = vcall[v].user
                              /\ row.verification_type = "email")}
    /\ VRespond(v, 200, "Email is already verified.")
    /\ UNCHANGED <<extVars, now, dbVars, req, redisVars, tick, wsVars, hist, accounts>>

\* _verify_email lines 35-46: the unused email row of the user with this code.
VerifyGetRecord(v) ==
    /\ vcall[v].pc = "record"
    /\ LET found == {row \in verifications :
                        /\ row.user = vcall[v].user
                        /\ row.verification_type = "email"
                        /\ row.verification_code = vcall[v].token
                        /\ ~row.is_verified}
       IN  IF found = {}
           THEN VRespond(v, 400, "Invalid or expired token.")
           ELSE vcall' = [vcall EXCEPT ![v].pc = "check",
                                       ![v].verification = CHOOSE row \in found : TRUE]
    /\ UNCHANGED <<extVars, now, dbVars, req, redisVars, tick, wsVars, hist,
                   accounts, verifications>>

\* _verify_email lines 48-61: an expired row, or a row whose token does not
\* check against the loaded (unverified) user, is deleted.
VerifyCheck(v) ==
    /\ vcall[v].pc = "check"
    /\ LET row == vcall[v].verification
       IN  IF verification_is_expired(row, now)
           THEN /\ verifications' = DeleteVerification(verifications, row)
                /\ VRespond(v, 400, "Token has expired. Please request a new verification email.")
           ELSE IF ~check_token(vcall[v].user, FALSE, vcall[v].token, now)
           THEN /\ verifications' = DeleteVerification(verifications, row)
                /\ VRespond(v, 400, "Invalid token.")
           ELSE /\ vcall' = [vcall EXCEPT ![v].pc = "commit"]
                /\ UNCHANGED verifications
    /\ UNCHANGED <<extVars, now, dbVars, req, redisVars, tick, wsVars, hist, accounts>>

\* _verify_email lines 63-71: in one transaction the flag is saved and the
\* row deleted.
VerifyCommit(v) ==
    /\ vcall[v].pc = "commit"
    /\ accounts' = [accounts EXCEPT ![vcall[v].user].email_verified = TRUE]
    /\ verifications' = DeleteVerification(verifications, vcall[v].verification)
    /\ VRespond(v, 200, "Email verified successfully.")
    /\ UNCHANGED <<extVars, now, dbVars, req, redisVars, tick, wsVars, hist>>

\* ---------------------------------------------------------------- payments
\* PaymentViewSet.initialize: a user who is not premium gets a checkout link
\* and a PENDING Transaction under the fresh reference of the gateway call.
InitializePayment(user, ref) ==
    /\ user \notin premium
    /\ ref \notin DOMAIN transactions
    /\ transactions' = [t \in DOMAIN transactions \cup {ref} |->
                           IF t = ref THEN [user |-> user, status |-> "PENDING"]
                           ELSE transactions[t]]
    /\ UNCHANGED <<accounts, verifications, vcall, patch, premium, pcall, now,
                   dbVars, req, redisVars, tick, wsVars, hist>>

PRespond(c, code, message) ==
    pcall' = [pcall EXCEPT ![c].pc = "done", ![c].code = code,
                           ![c].message = message]

\* PaymentViewSet.verify lines 135-149 and PaymentViewSet.webhook lines
\* 187-223: the Transaction of the reference is looked up; a webhook whose
\* status is not "success" goes on to mark it failed, every other call to the
\* shared verification.
PayBegin(c, kind, tx_ref, status) ==
    /\ pcall[c].pc = "idle"
    /\ IF c = 1 THEN TRUE ELSE pcall[c - 1].pc # "idle"
    /\ LET call == [IdlePCall EXCEPT !.kind = kind, !.tx_ref = tx_ref,
                                     !.status = status]
       IN  pcall' = [pcall EXCEPT ![c] =
               IF tx_ref \notin DOMAIN transactions
               THEN [call EXCEPT !.pc = "done",
                                 !.code = 200,
                                 !.message = IF kind = "webhook" THEN ""
                                             ELSE "Transaction not found"]
               ELSE [call EXCEPT !.user = transactions[tx_ref].user,
                                 !.pc = IF kind = "webhook" /\ status # "success"
                                        THEN "fail" ELSE "process"]]
    /\ UNCHANGED <<accounts, verifications, vcall, patch, transactions, premium,
                   now, dbVars, req, redisVars, tick, wsVars, hist>>

\* PaymentViewSet.webhook lines 223-230: the loaded Transaction is saved as
\* FAILED.
PayFail(c) ==
    /\ pcall[c].pc = "fail"
    /\ transactions' = [transactions EXCEPT ![pcall[c].tx_ref].status = "FAILED"]
    /\ PRespond(c, 200, "")
    /\ UNCHANGED <<accounts, verifications, vcall, patch, premium, now, dbVars,
                   req, redisVars, tick, wsVars, hist>>

\* _process_payment_verification lines 236-258: the Transaction is loaded; a
\* SUCCESS one is answered at once.
PayProcess(c) ==
    /\ pcall[c].pc = "process"
    /\ IF transactions[pcall[c].tx_ref].status = "SUCCESS"
       THEN PRespond(c, 200, "Payment already verified")
       ELSE pcall' = [pcall EXCEPT ![c].pc = "gateway"]
    /\ UNCHANGED <<accounts, verifications, vcall, patch, transactions, premium,
                   now, dbVars, req, redisVars, tick, wsVars, hist>>

\* _process_payment_verification lines 260-318: the gateway is asked; with
\* no answer nothing is written; on "success" the loaded Transaction is
\* saved as SUCCESS and the user made premium in one transaction; on any
\* other answer it is saved as FAILED.
PayGateway(c, answer) ==
    /\ pcall[c].pc = "gateway"
    /\ IF answer = "none"
       THEN /\ PRespond(c, IF pcall[c].kind = "webhook" THEN 200 ELSE 503,
                        "Unable to verify payment with gateway")
            /\ UNCHANGED <<transactions, premium>>
       ELSE IF answer = "success"
       THEN /\ transactions' =
                  [transactions EXCEPT ![pcall[c].tx_ref].status = "SUCCESS"]
            /\ premium' = premium \cup {pcall[c].user}
            /\ PRespond(c, 200, "Payment verified successfully")
       ELSE /\ transactions' =
                  [transactions EXCEPT ![pcall[c].tx_ref].status = "FAILED"]
            /\ UNCHANGED premium
            /\ PRespond(c, 200, "Payment verification failed")
    /\ UNCHANGED <<accounts, verifications, vcall, patch, now, dbVars, req,
                   redisVars, tick, wsVars, hist>>

\* ---------------------------------------------------------- dirty set
Min(a, b) == IF a < b THEN a ELSE b

\* mark_dirty(poll_id): SADD dirty_polls <poll id>.  No file of the repository
\* issues it; it is modelled from the specification's contract (4.3).
MarkDirty(p) ==
    /\ dirty_polls' = dirty_polls \cup {p}
    /\ tick' = [t \in TickIds |-> [tick[t] EXCEPT !.clean = FALSE]]
    /\ hist' = [hist EXCEPT
                  !.pending = [q \in DOMAIN hist.pending \cup {p} |->
                                 IF q = p THEN 0 ELSE hist.pending[q]],
                  !.window = <<>>]
    /\ UNCHANGED <<appVars, now, dbVars, req, dirty_polls_processing, wsVars>>

\* The record of one snapshot call in hist.window, kept when no mark_dirty
\* came since the window's first call began.
Returned(h, t, result) ==
    IF tick[t].clean
    THEN [h EXCEPT !.window =
            IF Len(@) < 2 THEN Append(@, [start |-> tick[t].start, result |-> result])
            ELSE <<@[2], [start |-> tick[t].start, result |-> result]>>]
    ELSE h

\* A mutant of RedisRename: the set is copied, the source key stays.
RedisCopy(src, dst) == [src |-> src, dst |-> src]

\* Redis RENAME src dst of an existing key: dst is overwritten, src is gone.
RedisRename(src, dst) == [src |-> {}, dst |-> src]

\* A mutant of RedisDelete: the cleanup deletes the working key as well.
RedisDeleteBoth(working, processing) == [working |-> {}, processing |-> {}]

\* Redis DEL dirty_polls_processing.
RedisDelete(working, processing) == [working |-> working, processing |-> {}]

\* broadcast_poll_updates lines 77-82: EXISTS dirty_polls.  A set that holds
\* no member is no key.
TickExists(t) ==
    /\ tick[t].pc = "idle"
    /\ LET aged == [hist EXCEPT !.pending =
                       [q \in DOMAIN @ |-> Min(@[q] + 1, 2)]]
       IN  IF dirty_polls = {}
           THEN /\ tick' = [tick EXCEPT ![t] = IdleTick]
                /\ hist' = [aged EXCEPT !.window =
                              IF Len(@) < 2 THEN Append(@, [start |-> {}, result |-> {}])
                              ELSE <<@[2], [start |-> {}, result |-> {}]>>]
           ELSE /\ tick' = [tick EXCEPT ![t].pc = "rename", ![t].clean = TRUE,
                                        ![t].start = dirty_polls]
                /\ hist' = aged
    /\ UNCHANGED <<appVars, now, dbVars, req, redisVars, wsVars>>

\* A mutant of AfterSwapError: the tick goes on to read the processing set.
AfterSwapErrorReads == "smembers"

\* broadcast_poll_updates lines 89-91: `except Exception: return`.
AfterSwapError == "idle"

\* broadcast_poll_updates lines 87-91: RENAME dirty_polls
\* dirty_polls_processing; the error of a missing key is caught and the tick
\* returns.
TickRename(t) ==
    /\ tick[t].pc = "rename"
    /\ IF dirty_polls = {}
       THEN /\ tick' = [tick EXCEPT ![t] = [IdleTick EXCEPT !.pc = AfterSwapError]]
            /\ hist' = Returned(hist, t, {})
            /\ UNCHANGED redisVars
       ELSE LET after == RedisRename(dirty_polls, dirty_polls_processing)
            IN  /\ dirty_polls' = after.src
                /\ dirty_polls_processing' = after.dst
                /\ tick' = [tick EXCEPT ![t].pc = "smembers"]
                /\ hist' = [hist EXCEPT !.voted = @ \ dirty_polls]
    /\ UNCHANGED <<appVars, now, dbVars, req, wsVars>>

\* broadcast_poll_updates lines 87-91 with the store unreachable: RENAME
\* raises before the store has executed it, and the task returns.
TickRenameFails(t) ==
    /\ tick[t].pc = "rename"
    /\ tick' = [tick EXCEPT ![t] = [IdleTick EXCEPT !.pc = AfterSwapError]]
    /\ hist' = Returned(hist, t, {})
    /\ UNCHANGED <<appVars, now, dbVars, req, redisVars, wsVars>>

\* broadcast_poll_updates line 94: SMEMBERS dirty_polls_processing.
TickSMembers(t) ==
    /\ tick[t].pc = "smembers"
    /\ tick' = [tick EXCEPT ![t].pc = IF dirty_polls_processing = {}
                                      THEN "delete" ELSE "loop",
                            ![t].dirty_poll_ids = dirty_polls_processing,
                            ![t].todo = dirty_polls_processing,
                            ![t].clean = FALSE, ![t].start = {},
                            ![t].again = dirty_polls_processing \ DOMAIN hist.pending]
    /\ hist' = [Returned(hist, t, dirty_polls_processing) EXCEPT
                  !.pending = [q \in DOMAIN @ \ (dirty_polls_processing \ dirty_polls)
                                 |-> @[q]]]
    /\ UNCHANGED <<appVars, now, dbVars, req, redisVars, wsVars>>

\* broadcast_poll_updates lines 104-106: values("id", "vote_count").
OptionsData(table, poll_id) ==
    [i \in 1..NumOptions |->
        [id |-> OptionPk(poll_id, i),
         vote_count |-> table[OptionPk(poll_id, i)].vote_count]]

\* A mutant of Remaining: the poll taken stays to be iterated again.
RemainingAll(todo, p) == todo

\* broadcast_poll_updates line 98: the for loop takes each member of the
\* snapshot once.
Remaining(todo, p) == todo \ {p}

\* A mutant of NextPoll: an error ends the loop.
AbortBatch(todo) == "delete"

\* broadcast_poll_updates lines 98 and 112-116: after a poll, published or
\* failed, the loop goes on to the next one, and to the cleanup after the
\* last.
NextPoll(todo) == IF todo = {} THEN "delete" ELSE "loop"

\* broadcast_poll_updates lines 98-106: the next poll of the snapshot and
\* the fetch of its options.
TickFetch(t) ==
    /\ tick[t].pc = "loop"
    /\ \E p \in tick[t].todo :
          tick' = [tick EXCEPT ![t].pc = "send", ![t].poll_id = p,
                               ![t].todo = Remaining(@, p),
                               ![t].options_data = OptionsData(options, p)]
    /\ UNCHANGED <<appVars, now, dbVars, req, redisVars, wsVars, hist>>

\* broadcast_poll_updates lines 109-111: group_send to poll_<id>.
TickSend(t) ==
    /\ tick[t].pc = "send"
    /\ inbox' = group_send(inbox, groups, GroupName(UuidStr(tick[t].poll_id)),
                           [type |-> "poll_update",
                            results |-> tick[t].options_data])
    /\ tick' = [tick EXCEPT ![t].pc = IF tick[t].todo = {} THEN "delete" ELSE "loop",
                            ![t].poll_id = NoPoll, ![t].options_data = <<>>,
                            ![t].sent = Append(@, tick[t].poll_id)]
    /\ UNCHANGED <<appVars, now, dbVars, req, redisVars, consumer, groups, recv, hist>>

\* broadcast_poll_updates lines 112-113: the fetch of a poll's options or
\* the group_send for it raises; the error is logged and the loop goes on.
TickPollFails(t) ==
    /\ \/ /\ tick[t].pc = "loop"
          /\ \E p \in tick[t].todo :
                tick' = [tick EXCEPT ![t].todo = Remaining(@, p),
                                     ![t].failed = @ \cup {p},
                                     ![t].pc = NextPoll(Remaining(tick[t].todo, p))]
       \/ /\ tick[t].pc = "send"
          /\ tick' = [tick EXCEPT ![t].failed = @ \cup {tick[t].poll_id},
                                  ![t].poll_id = NoPoll,
                                  ![t].options_data = <<>>,
                                  ![t].pc = NextPoll(tick[t].todo)]
    /\ UNCHANGED <<appVars, now, dbVars, req, redisVars, wsVars, hist>>

\* broadcast_poll_updates line 116: DEL dirty_polls_processing.
TickDelete(t) ==
    /\ tick[t].pc = "delete"
    /\ LET after == RedisDelete(dirty_polls, dirty_polls_processing)
       IN  /\ dirty_polls' = after.working
           /\ dirty_polls_processing' = after.processing
    /\ tick' = [tick EXCEPT ![t] = IdleTick]
    /\ UNCHANGED <<appVars, now, dbVars, req, wsVars, hist>>

TickStep(t) ==
    \/ TickExists(t)
    \/ TickRename(t)
    \/ TickSMembers(t)
    \/ TickFetch(t)
    \/ TickSend(t)
    \/ TickDelete(t)

\* ------------------------------------------------------------ websockets
\* The URL router and PollConsumer.connect: a path the pattern does not match
\* is refused; otherwise the channel joins poll_<text of the path> and the
\* client is sent connection_established.  `since` keeps how many votes the
\* ledger held at that moment.
Connect(c, text) ==
    /\ consumer[c].state = "new"
    /\ IF RouteMatches(text)
       THEN /\ consumer' = [consumer EXCEPT ![c] =
                   [state |-> "open", poll_id |-> text.poll,
                    room_group_name |-> GroupName(text), since |-> Len(votes)]]
            /\ groups' = [groups EXCEPT ![GroupName(text)] = @ \cup {c}]
            /\ recv' = [recv EXCEPT ![c] =
                   [type |-> "connection_established", results |-> <<>>]]
       ELSE /\ consumer' = [consumer EXCEPT ![c].state = "refused"]
            /\ UNCHANGED <<groups, recv>>
    /\ UNCHANGED <<appVars, now, dbVars, req, redisVars, tick, inbox, hist>>

\* PollConsumer.disconnect: group_discard.
Disconnect(c) ==
    /\ consumer[c].state = "open"
    /\ consumer' = [consumer EXCEPT ![c].state = "closed"]
    /\ groups' = [g \in DOMAIN groups |->
                    IF g = consumer[c].room_group_name THEN groups[g] \ {c}
                    ELSE groups[g]]
    /\ inbox' = [inbox EXCEPT ![c] = <<>>]
    /\ UNCHANGED <<appVars, now, dbVars, req, redisVars, tick, recv, hist>>

\* PollConsumer.disconnect on a consumer whose connect() has not run:
\* room_group_name is still the None of __init__, and group_discard(None,
\* channel) raises TypeError in the channel layer (a group name must be a
\* string).  No group is changed.
DisconnectUnjoined(c) ==
    /\ consumer[c].state = "new"
    /\ consumer[c].room_group_name = NoPoll
    /\ consumer' = [consumer EXCEPT ![c].state = "error"]
    /\ UNCHANGED <<appVars, now, dbVars, req, redisVars, tick, groups, inbox, recv, hist>>

\* PollConsumer.poll_update: the next queued group message is sent to the
\* client.  No specification below takes this step: the groups consumers
\* join are never the groups messages are sent to, so no message is queued.
PollUpdate(c) ==
    /\ consumer[c].state = "open"
    /\ inbox[c] # <<>>
    /\ recv' = [recv EXCEPT ![c] =
                  [type |-> "poll_update", results |-> Head(inbox[c]).results]]
    /\ inbox' = [inbox EXCEPT ![c] = Tail(@)]
    /\ UNCHANGED <<appVars, now, dbVars, req, redisVars, tick, consumer, groups, hist>>

\* One step of vote request r; the request's inputs are drawn from the
\* given sets.
VoteStep(r, clients, pollIds, optionIds) ==
    \/ \E client \in clients, poll_id \in pollIds, option_id \in optionIds :
          SubmitVote(r, client[1], client[2], poll_id, option_id)
    \/ ValidatePoll(r)
    \/ ValidateMember(r)
    \/ ValidateDup(r)
    \/ CreateVote(r)
    \/ SignalIncrement(r)
    \/ SignalFetch(r)
    \/ SignalSend(r)

Next ==
    \/ \E r \in Reqs : VoteStep(r, Clients, PollIds, 1..NumOptions)
    \/ \E user \in Users : JoinOrganization("g1", user)
    \/ AdvanceTime

Spec == Init /\ [][Next]_vars

\* The vote path with the storage and channel-layer errors that
\* handle_new_vote catches.
NextFaults ==
    \/ Next
    \/ \E r \in Reqs : SignalFails(r)

SpecFaults == Init /\ [][NextFaults]_vars

\* The whole pipeline on one poll, p1, private to organization g1: votes of
\* the member u1 and the non-member u2, a viewer of p1, one scheduler
\* instance, and mark_dirty calls from outside.
InitPipeline ==
    /\ Init
    /\ polls["p1"] = PollRow(FALSE, "g1", Unrestricted, 1)

\* The dirty-set tracker alone: one scheduler instance running ticks, and
\* mark_dirty calls arriving at any moment.
NextTracker ==
    \/ TickStep(1)
    \/ \E p \in PollIds : MarkDirty(p)

SpecTracker == InitPipeline /\ [][NextTracker]_vars

NextPipeline ==
    \/ \E r \in Reqs :
          VoteStep(r, {<<"u1", DirectNG>>, <<"u2", DirectNG>>}, {"p1"}, {1})
    \/ \E hyphens \in BOOLEAN : Connect("c1", [poll |-> "p1", hyphens |-> hyphens])
    \/ Disconnect("c1")
    \/ TickStep(1)
    \/ MarkDirty("p1")

SpecPipeline == InitPipeline /\ [][NextPipeline]_vars

\* Votes from one address, 1.1.1.1: the users u1 and u2 and an anonymous
\* client, on the private poll p1 and the open public poll p2.
SharedAddress == {<<"u1", DirectNG>>, <<"u2", DirectNG>>, <<Anonymous, DirectNG>>}

NextDup == \E r \in Reqs : VoteStep(r, SharedAddress, PollIds, {1})

SpecDup == InitPipeline /\ [][NextDup]_vars

\* The entry point with every kind of input: poll ids that exist or not,
\* option ordinals that exist (1..NumOptions) or not (NumOptions + 1).
NextEntry ==
    \E r \in Reqs :
        VoteStep(r, {<<"u1", DirectNG>>, <<Anonymous, DirectNG>>},
                 PollIds \cup {NoPoll}, 1..(NumOptions + 1))

SpecEntry == InitPipeline /\ [][NextEntry]_vars

\* The subscription registry alone: websockets opening on any path and
\* closing, in any order.
NextRegistry ==
    \E c \in Conns :
        \/ \E text \in PollIdTexts : Connect(c, text)
        \/ Disconnect(c)
        \/ DisconnectUnjoined(c)

SpecRegistry == InitPipeline /\ [][NextRegistry]_vars

\* The ledger over the life of the polls: votes on both polls, and between
\* the submissions a poll is closed or deleted by whoever may do so.
NextLedger ==
    \/ \E r \in Reqs :
          VoteStep(r, {<<"u1", DirectNG>>, <<"u2", DirectNG>>}, PollIds, {1})
    \/ \E p \in PollIds, user \in Users :
          /\ \A r \in Reqs : req[r].pc \in {"idle", "done"}
          /\ \/ ClosePoll(p, user)
             \/ DestroyPoll(p, user)

SpecLedger == InitPipeline /\ [][NextLedger]_vars

\* Every way a vote is refused: any client on poll p1, whatever its
\* visibility, organization and country, with an ordinal that exists or
\* not, while the creator may close the poll and the clock advances.
NextRefusals ==
    \/ \E r \in Reqs : VoteStep(r, Clients, {"p1"}, {1, NumOptions + 1})
    \/ ClosePoll("p1", "u1")
    \/ AdvanceTime

SpecRefusals == Init /\ [][NextRefusals]_vars

\* Payments: u1 and u2 begin payments; verify calls and webhook deliveries
\* arrive for any reference, in any order, with any answer of the gateway.
PayRefs == {"t1", "t2"}

NextPayments ==
    \/ \E user \in Users, ref \in PayRefs : InitializePayment(user, ref)
    \/ \E c \in PCalls, ref \in PayRefs : PayBegin(c, "verify", ref, "")
    \/ \E c \in PCalls, ref \in PayRefs, status \in {"success", "failed"} :
          PayBegin(c, "webhook", ref, status)
    \/ \E c \in PCalls : PayFail(c)
    \/ \E c \in PCalls : PayProcess(c)
    \/ \E c \in PCalls, answer \in {"none", "success", "failed"} :
          PayGateway(c, answer)

SpecPayments == InitPipeline /\ [][NextPayments]_vars

\* The life of a poll: p2 exists, p1 is created by u1; votes on p1, edits
\* and manual closes by u1, while the clock advances.
MaxDuration == 2

InitLifecycle ==
    /\ now = 1
    /\ polls = [p \in {"p2"} |-> PollRow(TRUE, NoOrg, Unrestricted, MaxTime + 1)]
    /\ options = [pk \in {OptionPk("p2", i) : i \in 1..NumOptions} |->
                     InitOptions[pk]]
    /\ votes = <<>>
    /\ members = {<<"g1", "u1">>}
    /\ req = [r \in Reqs |-> IdleReq]
    /\ dirty_polls = {}
    /\ dirty_polls_processing = {}
    /\ tick = [t \in TickIds |-> IdleTick]
    /\ consumer = [c \in Conns |-> NewConsumer]
    /\ groups = [g \in PollIdTexts |-> {}]
    /\ inbox = [c \in Conns |-> <<>>]
    /\ recv = [c \in Conns |-> NoMessage]
    /\ hist = InitHist
    /\ InitAuthIdle
    /\ InitExtIdle

NextLifecycle ==
    \/ \E public \in BOOLEAN, org \in Orgs \cup {NoOrg},
          duration \in 1..MaxDuration :
          CreatePoll("p1", "u1", public, org, Unrestricted, duration)
    \/ \E r \in Reqs :
          VoteStep(r, {<<"u1", DirectNG>>, <<"u2", DirectNG>>}, {"p1"}, {1})
    \/ \E p \in PollIds : ClosePoll(p, "u1")
    \/ \E public \in BOOLEAN : UpdateLoad(1, "p1", "u1", public)
    \/ UpdateSave(1)
    \/ AdvanceTime

SpecLifecycle == InitLifecycle /\ [][NextLifecycle]_vars

\* Email verification: u1 is verified already or not, each unverified user
\* has no link out or one made at time 0 or 1; two calls of _verify_email
\* with any uid and token, while the clock advances.
InitVerify ==
    /\ InitPolls
    /\ InitExtIdle
    /\ polls["p1"] = PollRow(FALSE, "g1", Unrestricted, 1)
    /\ vcall = [v \in VCalls |-> IdleVCall]
    /\ \E verified \in BOOLEAN, links \in SUBSET Users, made \in {0, 1} :
          /\ accounts = [u \in Users |->
                            [email_verified |-> (u = "u1" /\ verified)]]
          /\ verifications =
                {LinkRow(u, IF u = "u1" THEN made ELSE 1) :
                    u \in {w \in links : ~(w = "u1" /\ verified)}}

VerifyUids == {"dTE", "dTI", "dTk", "!"}
VerifyTokens ==
    {make_token("u1", FALSE, 0), make_token("u1", FALSE, 1),
     make_token("u2", FALSE, 1), GarbageToken}

NextVerify ==
    \/ \E v \in VCalls :
          \/ \E uid \in VerifyUids, token \in VerifyTokens :
                VerifyLoadUser(v, uid, token)
          \/ VerifyPurge(v)
          \/ VerifyGetRecord(v)
          \/ VerifyCheck(v)
          \/ VerifyCommit(v)
    \/ AdvanceTime

SpecVerify == InitVerify /\ [][NextVerify]_vars

\* Several scheduler instances: the periodic task runs on two workers at
\* once, and mark_dirty calls arrive at any moment.
NextSchedulers ==
    \/ \E t \in TickIds : TickStep(t)
    \/ \E p \in PollIds : MarkDirty(p)

SpecSchedulers == InitPipeline /\ [][NextSchedulers]_vars

\* One scheduler instance whose fetches and publishes may raise.
NextTickFaults ==
    \/ TickStep(1)
    \/ TickPollFails(1)
    \/ \E p \in PollIds : MarkDirty(p)

SpecTickFaults == InitPipeline /\ [][NextTickFaults]_vars

\* Two scheduler instances and a store that may refuse the swap.
NextSwapFaults ==
    \/ \E t \in TickIds : TickStep(t)
    \/ \E t \in TickIds : TickRenameFails(t)
    \/ \E p \in PollIds : MarkDirty(p)

SpecSwapFaults == InitPipeline /\ [][NextSwapFaults]_vars

\* ------------------------------------------------------------- properties
InProgress(r) == req[r].pc \notin {"idle", "done"}
NoSubmissionInProgress == \A r \in Reqs : ~InProgress(r)
Accepted(r) == req[r].pc = "done" /\ req[r].status = 201
Rejected(r) == req[r].pc = "done" /\ req[r].status = 400
Inserted(r) == \E i \in DOMAIN votes : votes[i].by = r
VotesFor(pk) == {i \in DOMAIN votes : votes[i].option = pk}

\* C1: two submissions of one authenticated user on one poll never both
\* succeed: the ledger holds at most one Vote per (poll, authenticated user).
C1_OneVotePerUser ==
    \A i, j \in DOMAIN votes :
        (i # j /\ votes[i].poll = votes[j].poll /\ votes[i].user # Anonymous)
            => votes[i].user # votes[j].user

\* An open public poll without a country restriction, as the rows stand now
\* (the clock only advances, so it was open at every earlier instant too).
OpenPublic(p) ==
    /\ polls[p].is_active
    /\ ~is_expired(polls[p], now)
    /\ polls[p].is_public
    /\ polls[p].allowed_country = Unrestricted

\* Request r is the only submission of its user on its poll.
SoleSubmission(r) ==
    \A s \in Reqs \ {r} :
        req[s].pc = "idle" \/ req[s].user # req[r].user
                           \/ req[s].poll_id # req[r].poll_id

\* C2: submissions of distinct authenticated users on an open public poll
\* are all accepted under every interleaving, and once they have all been
\* answered each option's vote_count is exactly the number of accepted
\* submissions for it (it started at 0): no increment is lost.
C2_NoLostUpdates ==
    /\ \A r \in Reqs :
          ( /\ req[r].pc = "done"
            /\ req[r].user # Anonymous
            /\ req[r].poll_id \in PollIds
            /\ OpenPublic(req[r].poll_id)
            /\ req[r].option_id \in 1..NumOptions
            /\ SoleSubmission(r) ) => Accepted(r)
    /\ NoSubmissionInProgress =>
          \A pk \in OptionPks :
              options[pk].vote_count =
                  Cardinality({r \in Reqs : Accepted(r) /\ req[r].option = pk})

C2_Witness ==
    /\ NoSubmissionInProgress
    /\ \E r, s \in Reqs :
          /\ r # s /\ Accepted(r) /\ Accepted(s)
          /\ req[r].user # Anonymous /\ req[s].user # Anonymous
          /\ req[r].user # req[s].user
          /\ req[r].option = req[s].option
          /\ options[req[r].option].vote_count = 2

\* C3: whenever no submission is in progress, every option's vote_count
\* equals the number of Vote rows that reference the option, also after a
\* submission whose increment or broadcast raised an error.
C3_Conservation ==
    NoSubmissionInProgress =>
        \A pk \in OptionPks :
            options[pk].vote_count = Cardinality(VotesFor(pk))

\* C4: every accepted vote adds its poll to the working dirty set: a poll
\* with an accepted vote that no snapshot has drained since is in dirty_polls.
C4_AcceptedVoteMarksDirty ==
    hist.voted \subseteq dirty_polls

\* C5: a mark_dirty is never dropped, whatever step of a tick it races with:
\* a marked poll that no tick has drained yet is still in a set a snapshot
\* will return (the working set, or the processing set awaiting SMEMBERS),
\* and at most one tick has begun since the mark, so it is drained by the
\* tick it raced with or by the next one.
C5_MarkNeverDropped ==
    \A p \in DOMAIN hist.pending :
        /\ hist.pending[p] <= 1
        /\ \/ p \in dirty_polls
           \/ /\ p \in dirty_polls_processing
              /\ \E t \in TickIds : tick[t].pc = "smembers"

\* A mark that landed after the RENAME of the tick still running.
C5_Witness ==
    /\ tick[1].pc = "delete"
    /\ tick[1].dirty_poll_ids # {}
    /\ \E p \in dirty_polls :
          p \in DOMAIN hist.pending /\ hist.pending[p] = 0

\* C6: of two snapshot calls in sequence with no mark_dirty in between, the
\* first begun on a non-empty dirty set, the first returns a non-empty set
\* and the second an empty one.
C6_SecondSnapshotEmpty ==
    \A i \in DOMAIN hist.window :
        hist.window[i].start # {} =>
            /\ hist.window[i].result # {}
            /\ (i + 1) \in DOMAIN hist.window => hist.window[i + 1].result = {}

C6_Witness ==
    /\ Len(hist.window) = 2
    /\ hist.window[1].start # {}
    /\ hist.window[1].result # {}
    /\ hist.window[2].result = {}

\* Nothing is left to do: every submission is answered, every queued message
\* is handed to its client, no tick is running and no poll is marked dirty.
Quiescent ==
    /\ NoSubmissionInProgress
    /\ \A c \in Conns : inbox[c] = <<>>
    /\ \A t \in TickIds : tick[t].pc = "idle"
    /\ dirty_polls = {}

\* The message is a poll_update whose entries hold the stored counts of p.
CarriesCounts(message, p) ==
    /\ message.type = "poll_update"
    /\ Len(message.results) = NumOptions
    /\ \A i \in 1..NumOptions :
          message.results[i].vote_count = options[OptionPk(p, i)].vote_count

\* C7: once the votes have stopped and nothing is left to do, the last
\* message of a viewer that has been connected for poll P since before a vote
\* on P was inserted is a poll_update with P's final counts.
C7_ViewerSeesFinalCounts ==
    \A c \in Conns :
        ( /\ Quiescent
          /\ consumer[c].state = "open"
          /\ \E i \in DOMAIN votes :
                i > consumer[c].since /\ votes[i].poll = consumer[c].poll_id )
        => CarriesCounts(recv[c], consumer[c].poll_id)

\* C8: the validation step of a submission against an active poll whose end
\* date has passed answers 400, inserts no Vote and changes no vote_count,
\* and an answered submission never takes another step.
C8_ExpiredRejected ==
    [][\A r \in Reqs :
         /\ ( /\ req[r].pc = "validate"
              /\ req'[r].pc # "validate"
              /\ polls[req[r].poll_id].is_active
              /\ now > polls[req[r].poll_id].end_date )
            => ( /\ req'[r].pc = "done"
                 /\ req'[r].status = 400
                 /\ votes' = votes
                 /\ options' = options )
         /\ req[r].pc = "done" => req'[r] = req[r]]_vars

C8_Witness ==
    \E r \in Reqs :
        /\ Rejected(r)
        /\ req[r].reason = "This poll has expired."
        /\ polls[req[r].poll_id].is_active
        /\ now > polls[req[r].poll_id].end_date
        /\ ~Inserted(r)

\* C9: a vote on a non-public poll is inserted only for an authenticated
\* user who is a member of the poll's owning group (memberships are only
\* ever added, so a member at validation time is a member now).
C9_PrivateNeedsMember ==
    \A r \in Reqs :
        (Inserted(r) /\ ~req[r].poll.is_public) =>
            /\ req[r].user # Anonymous
            /\ <<req[r].poll.organization, req[r].user>> \in members

\* What the address resolves to when the lookup works.
Resolves(ip, country) ==
    ~IsPrivateIp(ip) /\ ip \in DOMAIN GeoDb /\ GeoDb[ip] = country

\* C10: on a poll with a country restriction, a submission that reached the
\* country check passes it only when its address resolves to the allowed
\* country; with another country, or none, it is answered 400 and inserts
\* no Vote.
C10_CountryRestriction ==
    \A r \in Reqs :
        ( /\ req[r].pc \notin {"idle", "validate", "member", "dup"}
          /\ req[r].poll.allowed_country # Unrestricted ) =>
            IF req[r].country = req[r].poll.allowed_country
            THEN Resolves(req[r].ip, req[r].poll.allowed_country)
            ELSE Rejected(r) /\ ~Inserted(r)

C10_Witness ==
    \E r, s \in Reqs :
        /\ req[r].poll.allowed_country = "NG"
        /\ Rejected(r)
        /\ req[r].reason = "This poll is restricted to voters in its country."
        /\ req[r].country = NoCountry
        /\ req[s].poll.allowed_country = "NG"
        /\ Accepted(s)
        /\ req[s].country = "NG"

DupByUser == "You have already voted in this poll."
DupByAddress == "A vote has already been cast from this IP address."

\* C11: for an authenticated voter the duplicate check looks only at
\* (poll, user): an answered submission of an authenticated user is never
\* rejected for its address, and it is rejected as a duplicate only when the
\* ledger holds a Vote of that user on that poll from another submission.
C11_AuthenticatedDupByUserOnly ==
    \A r \in Reqs :
        (req[r].pc = "done" /\ req[r].user # Anonymous) =>
            /\ req[r].reason # DupByAddress
            /\ req[r].reason = DupByUser =>
                  \E i \in DOMAIN votes :
                      /\ votes[i].poll = req[r].poll_id
                      /\ votes[i].user = req[r].user
                      /\ votes[i].by # r

\* Two users accepted from one address on one poll, or a user accepted after
\* an anonymous vote from the user's address.
C11_Witness ==
    \E r, s \in Reqs :
        /\ Accepted(r) /\ Accepted(s)
        /\ req[r].poll_id = req[s].poll_id
        /\ req[r].ip = req[s].ip
        /\ req[r].user = "u1"
        /\ req[s].user = "u2"
        /\ \E i, j \in DOMAIN votes :
              i < j /\ votes[i].by = r /\ votes[j].by = s

\* C12: a vote of an authenticated user does not use up the anonymous vote
\* of its address: an anonymous submission is rejected as a duplicate only
\* when the ledger holds an anonymous Vote on that poll from that address.
C12_AnonymousVoteNotConsumed ==
    \A r \in Reqs :
        (Rejected(r) /\ req[r].user = Anonymous /\ req[r].reason = DupByAddress) =>
            \E i \in DOMAIN votes :
                /\ votes[i].poll = req[r].poll_id
                /\ votes[i].ip_address = req[r].ip
                /\ votes[i].user = Anonymous
                /\ votes[i].by # r

\* C13: the entry point answers 201 exactly for the submissions whose Vote
\* was inserted, 404 exactly for those naming a poll or an option ordinal
\* that does not exist, and 400 for every other one.
C13_OutcomeMapping ==
    \A r \in Reqs :
        req[r].pc = "done" =>
            /\ req[r].status \in {201, 400, 404}
            /\ req[r].status = 201 <=> Inserted(r)
            /\ req[r].status = 404 <=>
                  \/ req[r].poll_id \notin PollIds
                  \/ req[r].option_id \notin 1..NumOptions

\* The entries of a poll_update for poll p: one per option, in ordinal order,
\* each naming the option by its ordinal and carrying a count the option's
\* row has held (counts only rise).
OrdinalEntries(results, p) ==
    /\ Len(results) = NumOptions
    /\ \A i \in 1..NumOptions :
          /\ results[i].id = i
          /\ results[i].vote_count <= options[OptionPk(p, i)].vote_count

\* C14: every poll_update about to be published, by the vote path or by a
\* broadcast tick, has one entry per option whose id is the option's ordinal
\* within the poll, never the storage key.
C14_UpdateCarriesOrdinals ==
    /\ \A r \in Reqs :
          req[r].pc = "send" => OrdinalEntries(req[r].results, req[r].poll_id)
    /\ \A t \in TickIds :
          tick[t].pc = "send" => OrdinalEntries(tick[t].options_data, tick[t].poll_id)

\* A publish for poll p has just been made: of the open connections, exactly
\* those that joined for p got one more message queued.
DeliveredTo(p) ==
    \A c \in Conns :
        consumer[c].state = "open" =>
            ( Len(inbox'[c]) = Len(inbox[c]) + 1 <=> consumer[c].poll_id = p )

\* C15: a publish for poll P, from the vote path or from a tick, is delivered
\* to every connection joined for P and to no connection joined for another
\* poll: the group a viewer joins for P is the group P's broadcasts go to.
C15_PublishReachesJoined ==
    [][ /\ \A r \in Reqs :
             (req[r].pc = "send" /\ req'[r].pc # "send")
                 => DeliveredTo(req[r].poll_id)
        /\ \A t \in TickIds :
             (tick[t].pc = "send" /\ tick'[t].pc # "send")
                 => DeliveredTo(tick[t].poll_id) ]_vars

\* The groups hold exactly the connections that joined and have not left,
\* each in the one group it joined.
RegistryExact ==
    \A c \in Conns, g \in DOMAIN groups :
        c \in groups[g] <=>
            (consumer[c].state = "open" /\ consumer[c].room_group_name = g)

C17_LedgerAppendOnly ==
    [][\A i \in DOMAIN votes :
          i \in DOMAIN votes' /\ votes'[i] = votes[i]]_vars

\* The user's email verification rows.
EmailRows(user) ==
    {row \in verifications :
        row.user = user /\ row.verification_type = "email"}

VerifiedOk(v) ==
    /\ vcall[v].status = 200
    /\ vcall[v].message = "Email verified successfully."

C19_VotePathNeverPublishes ==
    [][\A r \in Reqs :
          ~( /\ req[r].pc = "send"
             /\ req'[r].pc = "done"
             /\ ~req'[r].fault )]_vars

\* C20: with several scheduler instances running ticks at once, every marked
\* poll is drained by exactly one of them: a mark not yet returned by a
\* snapshot is still in a set a snapshot will return, and no snapshot returns
\* a poll that another has returned already for the same mark.
C20_DrainedByExactlyOne ==
    /\ \A p \in DOMAIN hist.pending :
          \/ p \in dirty_polls
          \/ /\ p \in dirty_polls_processing
             /\ \E t \in TickIds : tick[t].pc = "smembers"
    /\ \A t \in TickIds : tick[t].again = {}

\* The polls of a sequence.
Range(seq) == {seq[i] : i \in DOMAIN seq}

\* C21: within one tick an error of the fetch or the publish for one poll
\* does not stop the others: when the loop is over, every poll of the
\* snapshot that did not fail has been published for; and the loop always
\* ends in the cleanup, which empties the processing set.
C21_PartialFailureIsolation ==
    [][\A t \in TickIds :
          /\ tick[t].pc = "delete" =>
                /\ Range(tick[t].sent) = tick[t].dirty_poll_ids \ tick[t].failed
                /\ tick'[t].pc = "idle" => dirty_polls_processing' = {}
          /\ tick[t].pc \in {"loop", "send"} =>
                tick'[t].pc \in {"loop", "send", "delete"}]_vars

\* A tick on two polls: one failed, the other was published for.
C21_Witness ==
    /\ tick[1].pc = "delete"
    /\ tick[1].failed # {}
    /\ tick[1].sent # <<>>
    /\ Range(tick[1].sent) \cup tick[1].failed = tick[1].dirty_poll_ids

\* The swap of tick t fails in this step: the tick leaves the RENAME and
\* the step is not the move of a non-empty dirty set to the processing key.
SwapFails(t) ==
    /\ tick[t].pc = "rename"
    /\ tick'[t].pc # "rename"
    /\ ~ /\ dirty_polls # {}
         /\ dirty_polls' = {}
         /\ dirty_polls_processing' = dirty_polls

\* C22: a tick whose swap fails, the store being unreachable or the key
\* gone since the existence check, returns normally, has published nothing
\* and leaves the dirty set, the processing set and every channel's queue as
\* they were.
C22_FailedSwapIsNoOp ==
    [][\A t \in TickIds :
          SwapFails(t) =>
             /\ tick'[t] = IdleTick
             /\ dirty_polls' = dirty_polls
             /\ dirty_polls_processing' = dirty_polls_processing
             /\ inbox' = inbox
             /\ tick[t].sent = <<>>]_vars

\* A tick that found marks at its existence check returned an empty result
\* and the marks are still in the dirty set.
C22_Witness ==
    /\ \A t \in TickIds : tick[t].pc = "idle"
    /\ Len(hist.window) >= 1
    /\ hist.window[Len(hist.window)].start # {}
    /\ hist.window[Len(hist.window)].result = {}
    /\ hist.window[Len(hist.window)].start \subseteq dirty_polls
    /\ dirty_polls_processing = {}

\* No poll occurs twice in the sequence.
NoRepeat(seq) == \A i, j \in DOMAIN seq : seq[i] = seq[j] => i = j

\* C23: with no errors a tick publishes exactly once for every poll of the
\* snapshot it drained and for no other poll; a tick that finds the dirty set
\* empty publishes nothing and changes neither the store, the database nor
\* any channel.
C23_OnePublishPerDrainedPoll ==
    [][/\ \A t \in TickIds :
             /\ NoRepeat(tick'[t].sent)
             /\ Range(tick'[t].sent) \subseteq tick'[t].dirty_poll_ids
             /\ tick[t].pc = "delete" =>
                   Range(tick[t].sent) = tick[t].dirty_poll_ids
       /\ (/\ \A t \in TickIds : tick[t].pc = "idle" /\ tick'[t].pc = "idle"
           /\ dirty_polls = {}
           /\ dirty_polls' = {}) =>
             /\ tick' = tick
             /\ UNCHANGED <<dbVars, redisVars, wsVars>>]_vars

\* A tick has published for each of the two polls of its snapshot.
C23_Witness ==
    /\ tick[1].pc = "delete"
    /\ tick[1].dirty_poll_ids = PollIds
    /\ Len(tick[1].sent) = 2
    /\ Range(tick[1].sent) = PollIds

\* The post_save handler of the Vote created by request r ends in this step.
IncrementDue(r) == req[r].pc = "inc" /\ req'[r].pc # "inc"

\* C24: every option's vote_count is non-negative and never decreases; it
\* changes only by the +1 of the increment applied for a created Vote, and
\* that increment is applied once for every created Vote.
C24_CountOwnedByIncrement ==
    [][/\ \A pk \in DOMAIN options \cap DOMAIN options' :
             /\ options[pk].vote_count >= 0
             /\ options'[pk].vote_count >= options[pk].vote_count
             /\ options'[pk].vote_count # options[pk].vote_count =>
                   /\ options'[pk].vote_count = options[pk].vote_count + 1
                   /\ \E r \in Reqs : IncrementDue(r) /\ req[r].option = pk
       /\ \A r \in Reqs :
             IncrementDue(r) =>
                options'[req[r].option].vote_count =
                   options[req[r].option].vote_count + 1]_vars

\* C25: every poll's end time is strictly after its start time, and a poll
\* that was manually closed is inactive and never becomes active again.
C25_ClosedStaysClosed ==
    [][\A p \in DOMAIN polls \cap DOMAIN polls' :
          /\ polls'[p].end_date > polls'[p].start_date
          /\ polls'[p].manually_closed => ~polls'[p].is_active
          /\ polls[p].manually_closed => ~polls'[p].is_active]_vars

\* The identity of the options of poll p: their keys and ordinals.
OptionsOf(table, p) ==
    {<<pk, table[pk].index>> : pk \in {k \in DOMAIN table : table[k].poll = p}}

\* C26: once created a poll changes only in its active and manually-closed
\* flags: no step, the close included, changes its start time, end time,
\* options, visibility or country restriction.
C26_OnlyFlagsChange ==
    [][\A p \in DOMAIN polls \cap DOMAIN polls' :
          /\ polls'[p].start_date = polls[p].start_date
          /\ polls'[p].end_date = polls[p].end_date
          /\ polls'[p].is_public = polls[p].is_public
          /\ polls'[p].allowed_country = polls[p].allowed_country
          /\ OptionsOf(options', p) = OptionsOf(options, p)]_vars

\* C27: no Vote is recorded on a poll whose close has completed: the poll
\* is active at the step that inserts the Vote row.
C27_NoVoteAfterClose ==
    [][\A r \in Reqs :
          (req[r].pc = "create" /\ Len(votes') = Len(votes) + 1
             /\ votes'[Len(votes')].by = r) =>
                /\ req[r].poll_id \in DOMAIN polls
                /\ polls[req[r].poll_id].is_active]_vars

Refuses(r) == req[r].pc # "done" /\ req'[r].pc = "done" /\ req'[r].status = 400

\* C29: a refused vote leaves the state as it was: the step that answers
\* the refusal changes no table, no store key and no channel queue and
\* publishes nothing, and the refused request has inserted no Vote.
C29_RefusalChangesNothing ==
    [][\A r \in Reqs :
          /\ Refuses(r) =>
                /\ UNCHANGED <<dbVars, redisVars, wsVars>>
                /\ hist'.published = hist.published
          /\ (req'[r].pc = "done" /\ req'[r].status = 400) =>
                ~ \E i \in DOMAIN votes' : votes'[i].by = r]_vars

\* A vote was accepted on the poll and counted; a later submission of the
\* same voter was refused as a duplicate, and the ledger and the counter are
\* as the accepted vote left them.
C29_Witness ==
    \E r, q \in Reqs :
        /\ Accepted(r)
        /\ Rejected(q)
        /\ req[q].reason = "You have already voted in this poll."
        /\ Len(votes) = 1
        /\ votes[1].by = r
        /\ options[votes[1].option].vote_count = 1

\* C30: the SUCCESS status of a Transaction is absorbing: no step of a
\* verify call or a webhook delivery changes it to FAILED or PENDING.
C30_SuccessAbsorbing ==
    [][\A ref \in DOMAIN transactions :
          transactions[ref].status = "SUCCESS" =>
             transactions'[ref].status = "SUCCESS"]_vars

====
